---- MODULE Spec2Model ----
(***************************************************************************)
(* Model of transform_xml.py: the coordinate transform, the rewriting of   *)
(* the X_COORD / Y_COORD fields of an XML text, the rewriting of the two   *)
(* coordinates in a file name, and the batch driver process_xml_files.     *)
(*                                                                         *)
(* A Python str is a sequence of one-character strings.  Python integers   *)
(* are unbounded, so Int is used without a width.                          *)
(***************************************************************************)
EXTENDS Integers, Sequences, FiniteSets, TLC

VARIABLES
    arg,        \* the argument of the function under test (pure-function specifications)
    segs,       \* the pieces arg was put together from
    ret1,       \* the function applied once to arg
    ret2,       \* the function applied to ret1
    calls,      \* how many applications have been made
    pc,         \* process_xml_files: position in the function
    inputDir,   \* process_xml_files: entries of the input directory, name -> text
    outDir,     \* process_xml_files: files of the output directory, name -> text
    outDir0,    \* process_xml_files: the output directory as the run found it
    xml_files,  \* process_xml_files: list(input_path.glob("*.xml"))
    idx,        \* process_xml_files: index of the loop's current file in xml_files
    content,    \* process_xml_files: the text read from the current file
    log,        \* process_xml_files: the lines printed so far
    io          \* process_xml_files: the file reads and writes started so far

fnVars == <<arg, segs, ret1, ret2, calls>>
batchVars == <<pc, inputDir, outDir, outDir0, xml_files, idx, content, log, io>>
vars == <<arg, segs, ret1, ret2, calls,
          pc, inputDir, outDir, outDir0, xml_files, idx, content, log, io>>

None == <<"none">>

----------------------------------------------------------------------------
(* Bounds of the model.                                                    *)

MaxCoord == 60
MaxNameLen == 6
MaxSegs == 4
MaxFiles == 2
MaxPartial == 1

----------------------------------------------------------------------------
(* Characters, int() and str().                                            *)

DigitChars == <<"0", "1", "2", "3", "4", "5", "6", "7", "8", "9">>

IsDigit(c) == \E d \in 1..10 : DigitChars[d] = c

DigitVal(c) == (CHOOSE d \in 1..10 : DigitChars[d] = c) - 1

RECURSIVE Flatten(_)
Flatten(ss) == IF ss = <<>> THEN <<>> ELSE Head(ss) \o Flatten(Tail(ss))

Abs(n) == IF n < 0 THEN -n ELSE n

\* int(s) for s a run of digits: the decimal value, leading zeros ignored
RECURSIVE DigitsValue(_)
DigitsValue(s) ==
    IF s = <<>> THEN 0
    ELSE 10 * DigitsValue(SubSeq(s, 1, Len(s) - 1)) + DigitVal(s[Len(s)])

\* int(s) for s matching -?\d+
IntOf(s) ==
    IF s[1] = "-" THEN -DigitsValue(Tail(s)) ELSE DigitsValue(s)

\* the decimal digits of n >= 0, no leading zeros
RECURSIVE NatStr(_)
NatStr(n) ==
    IF n < 10 THEN <<DigitChars[n + 1]>>
    ELSE NatStr(n \div 10) \o <<DigitChars[(n % 10) + 1]>>

\* str(n), as an f-string's {n} renders an int
StrOf(n) == IF n < 0 THEN <<"-">> \o NatStr(-n) ELSE NatStr(n)

RECURSIVE Zeros(_)
Zeros(k) == IF k <= 0 THEN <<>> ELSE <<"0">> \o Zeros(k - 1)

FieldWidth == 3

\* f"{n:03d}": the sign first, then zeros up to a total width of 3, then the digits
Format03d(n) ==
    LET sign == IF n < 0 THEN <<"-">> ELSE <<>>
        digs == NatStr(Abs(n))
    IN  sign \o Zeros(FieldWidth - Len(sign) - Len(digs)) \o digs

\* s[i:i+len(lit)] == lit
LiteralAt(s, i, lit) ==
    /\ i + Len(lit) - 1 <= Len(s)
    /\ SubSeq(s, i, i + Len(lit) - 1) = lit

\* the position after the longest run of digits of s that starts at i (i itself if none)
RECURSIVE DigitRunEnd(_, _)
DigitRunEnd(s, i) ==
    IF i <= Len(s) /\ IsDigit(s[i]) THEN DigitRunEnd(s, i + 1) ELSE i

----------------------------------------------------------------------------
(* transform_coordinate                                                    *)

Offset == 25

transform_coordinate_dropneg(value) == value + Offset

transform_coordinate(value) == -value + Offset

----------------------------------------------------------------------------
(* transform_filename                                                      *)

Ext == <<".", "x", "m", "l">>

\* '$' without re.MULTILINE: at the end of the string, or just before a newline
\* that is the string's last character
DollarAt(s, i) ==
    \/ i = Len(s) + 1
    \/ i = Len(s) /\ s[i] = "\n"

\* (-\d+)(-\d+)(\.xml)$ tried at position i: the start positions of group 2 and
\* of group 3, or None.  A digit run is delimited by the '-' or '.' that must
\* follow it, so the greedy match is the only candidate.
FilenameMatchAt(s, i) ==
    IF ~(i <= Len(s) /\ s[i] = "-") THEN None
    ELSE LET j == DigitRunEnd(s, i + 1) IN
         IF j = i + 1 \/ ~(j <= Len(s) /\ s[j] = "-") THEN None
         ELSE LET k == DigitRunEnd(s, j + 1) IN
              IF k = j + 1 \/ ~LiteralAt(s, k, Ext) \/ ~DollarAt(s, k + Len(Ext)) THEN None
              ELSE <<j, k>>

\* re.search: the leftmost position where the pattern matches, 0 if nowhere
RECURSIVE FilenameSearch(_, _)
FilenameSearch(s, i) ==
    IF i > Len(s) THEN 0
    ELSE IF FilenameMatchAt(s, i) # None THEN i
    ELSE FilenameSearch(s, i + 1)

transform_filename_nopad(filename) ==
    LET i == FilenameSearch(filename, 1) IN
    IF i = 0 THEN filename
    ELSE LET m == FilenameMatchAt(filename, i)
             new_x == transform_coordinate(IntOf(SubSeq(filename, i + 1, m[1] - 1)))
             new_y == transform_coordinate(IntOf(SubSeq(filename, m[1] + 1, m[2] - 1)))
         IN  SubSeq(filename, 1, i - 1) \o <<"-">> \o StrOf(new_x)
                 \o <<"-">> \o StrOf(new_y) \o Ext

transform_filename(filename) ==
    LET i == FilenameSearch(filename, 1) IN
    IF i = 0 THEN filename
    ELSE LET m == FilenameMatchAt(filename, i)
             x_value == IntOf(SubSeq(filename, i + 1, m[1] - 1))
             y_value == IntOf(SubSeq(filename, m[1] + 1, m[2] - 1))
             new_x == transform_coordinate(x_value)
             new_y == transform_coordinate(y_value)
             base_name == SubSeq(filename, 1, i - 1)
         IN  base_name \o <<"-">> \o Format03d(new_x)
                 \o <<"-">> \o Format03d(new_y) \o Ext

----------------------------------------------------------------------------
(* transform_xml_content                                                   *)

OpenTag(tag) == <<"<">> \o tag \o <<">">>

CloseTag(tag) == <<"<", "/">> \o tag \o <<">">>

X_COORD == <<"X", "_", "C", "O", "O", "R", "D">>

Y_COORD == <<"Y", "_", "C", "O", "O", "R", "D">>

\* <TAG>(-?\d+)</TAG> tried at position i: <<start of group 1, end of group 1,
\* position after the match>>, or None
CoordMatchAt(tag, s, i) ==
    IF s[i] # "<" \/ ~LiteralAt(s, i, OpenTag(tag)) THEN None
    ELSE LET g == i + Len(OpenTag(tag))
             d == IF g <= Len(s) /\ s[g] = "-" THEN g + 1 ELSE g
             e == DigitRunEnd(s, d)
         IN  IF e = d \/ ~LiteralAt(s, e, CloseTag(tag)) THEN None
             ELSE <<g, e - 1, e + Len(CloseTag(tag))>>

replace_coord_pad(tag, group1) ==
    OpenTag(tag) \o Format03d(transform_coordinate(IntOf(group1))) \o CloseTag(tag)

\* replace_x_coord / replace_y_coord
replace_coord(tag, group1) ==
    LET value == IntOf(group1)
        new_value == transform_coordinate(value)
    IN  OpenTag(tag) \o StrOf(new_value) \o CloseTag(tag)

\* re.sub(pattern, repl, s) from position i on: matches are taken left to right,
\* each search resuming after the previous match
RECURSIVE CoordSub(_, _, _)
CoordSub(tag, s, i) ==
    IF i > Len(s) THEN <<>>
    ELSE LET m == CoordMatchAt(tag, s, i) IN
         IF m = None THEN <<s[i]>> \o CoordSub(tag, s, i + 1)
         ELSE replace_coord(tag, SubSeq(s, m[1], m[2])) \o CoordSub(tag, s, m[3])

transform_xml_content_xonly(c) == CoordSub(X_COORD, c, 1)

\* lines 47 and 49: the X_COORD pass, then the Y_COORD pass over its result
transform_xml_content(c) ==
    CoordSub(Y_COORD, CoordSub(X_COORD, c, 1), 1)

----------------------------------------------------------------------------
(* process_xml_files                                                       *)

\* a directory is a function from the names of its files to their text
EmptyDir == [n \in {} |-> <<>>]

Put(dir, name, text) ==
    [n \in (DOMAIN dir) \cup {name} |-> IF n = name THEN text ELSE dir[n]]

\* the fields of the example text <X_COORD>23</X_COORD><Y_COORD>10</Y_COORD>
X23 == OpenTag(X_COORD) \o <<"2", "3">> \o CloseTag(X_COORD)

Y10 == OpenTag(Y_COORD) \o <<"1", "0">> \o CloseTag(Y_COORD)

\* the entries an input directory may hold: two names that the file name
\* rewriting maps to one name, a name without coordinates, and an entry that
\* is no .xml file
FileA == <<"a", "-", "1", "-", "2">> \o Ext

FileB == <<"a", "-", "0", "1", "-", "0", "2">> \o Ext

FileC == <<"b">> \o Ext

FileD == <<"c", ".", "t", "x", "t">>

FileText ==
    [n \in {FileA, FileB, FileC, FileD} |->
        IF n = FileA THEN X23 \o Y10
        ELSE IF n = FileB THEN OpenTag(X_COORD) \o <<"-", "3">> \o CloseTag(X_COORD)
        ELSE <<"z">>]

\* what the output directory may hold when the run starts
OldFile == <<"a", "-", "0", "2", "4", "-", "0", "2", "3">> \o Ext

InitialOutDirs == {EmptyDir, Put(EmptyDir, OldFile, <<"o", "l", "d">>)}

\* input_path.glob("*.xml") keeps the names that end with .xml
IsXmlName(name) ==
    Len(name) >= Len(Ext) /\ SubSeq(name, Len(name) - Len(Ext) + 1, Len(name)) = Ext

Orderings(S) ==
    {f \in [1..Cardinality(S) -> S] : \A a, b \in 1..Cardinality(S) : f[a] = f[b] => a = b}

Init ==
    /\ pc = "start"
    /\ \E S \in SUBSET (DOMAIN FileText) :
           /\ Cardinality(S) <= MaxFiles
           /\ inputDir = [n \in S |-> FileText[n]]
    /\ outDir0 \in InitialOutDirs
    /\ outDir = outDir0
    /\ xml_files = <<>>
    /\ idx = 0
    /\ content = None
    /\ log = <<>>
    /\ io = <<>>
    /\ arg = None /\ segs = <<>> /\ ret1 = None /\ ret2 = None /\ calls = 0

\* line 105: output_path.mkdir(parents=True, exist_ok=True)
Mkdir ==
    /\ pc = "start"
    /\ pc' = "glob"
    /\ UNCHANGED <<inputDir, outDir, outDir0, xml_files, idx, content, log, io>>
    /\ UNCHANGED fnVars

\* line 105 raising (the directory cannot be made): nothing catches it
MkdirFails ==
    /\ pc = "start"
    /\ pc' = "raised"
    /\ UNCHANGED <<inputDir, outDir, outDir0, xml_files, idx, content, log, io>>
    /\ UNCHANGED fnVars

\* line 108: the matching entries, in the order the file system lists them
Glob ==
    /\ pc = "glob"
    /\ xml_files' \in Orderings({n \in DOMAIN inputDir : IsXmlName(n)})
    /\ pc' = "check"
    /\ UNCHANGED <<inputDir, outDir, outDir0, idx, content, log, io>>
    /\ UNCHANGED fnVars

NoFilesFallsThrough ==
    /\ pc = "check"
    /\ xml_files = <<>>
    /\ log' = Append(log, <<"none_found">>)
    /\ pc' = "finish"
    /\ UNCHANGED <<inputDir, outDir, outDir0, xml_files, idx, content, io>>
    /\ UNCHANGED fnVars

\* lines 110-112: no file found, say so and return
NoFiles ==
    /\ pc = "check"
    /\ xml_files = <<>>
    /\ log' = Append(log, <<"none_found">>)
    /\ pc' = "returned"
    /\ UNCHANGED <<inputDir, outDir, outDir0, xml_files, idx, content, io>>
    /\ UNCHANGED fnVars

\* line 114, and the loop's first file
Announce ==
    /\ pc = "check"
    /\ xml_files # <<>>
    /\ log' = Append(log, <<"found", Len(xml_files)>>)
    /\ idx' = 1
    /\ pc' = "read"
    /\ UNCHANGED <<inputDir, outDir, outDir0, xml_files, content, io>>
    /\ UNCHANGED fnVars

\* the for statement taking its next file, or leaving the loop
NextFile ==
    /\ idx' = idx + 1
    /\ content' = None
    /\ pc' = IF idx + 1 > Len(xml_files) THEN "finish" ELSE "read"

\* line 119: read_text returns the file's text
ReadOk ==
    /\ pc = "read"
    /\ io' = Append(io, <<"read", xml_files[idx]>>)
    /\ content' = inputDir[xml_files[idx]]
    /\ pc' = "write"
    /\ UNCHANGED <<inputDir, outDir, outDir0, xml_files, idx, log>>
    /\ UNCHANGED fnVars

ReadFailsAborts ==
    /\ pc = "read"
    /\ io' = Append(io, <<"read", xml_files[idx]>>)
    /\ log' = Append(log, <<"failed", xml_files[idx], "read">>)
    /\ pc' = "raised"
    /\ UNCHANGED <<inputDir, outDir, outDir0, xml_files, idx, content>>
    /\ UNCHANGED fnVars

ReadFailsStillWrites ==
    /\ pc = "read"
    /\ io' = Append(io, <<"read", xml_files[idx]>>)
    /\ outDir' = Put(outDir, transform_filename(xml_files[idx]), <<>>)
    /\ log' = Append(log, <<"failed", xml_files[idx], "read">>)
    /\ NextFile
    /\ UNCHANGED <<inputDir, outDir0, xml_files>>
    /\ UNCHANGED fnVars

\* line 119 raising (the entry cannot be read or decoded), lines 133-134
ReadFails ==
    /\ pc = "read"
    /\ io' = Append(io, <<"read", xml_files[idx]>>)
    /\ log' = Append(log, <<"failed", xml_files[idx], "read">>)
    /\ NextFile
    /\ UNCHANGED <<inputDir, outDir, outDir0, xml_files>>
    /\ UNCHANGED fnVars

WriteOkOriginalName ==
    /\ pc = "write"
    /\ io' = Append(io, <<"write", xml_files[idx]>>)
    /\ outDir' = Put(outDir, xml_files[idx], transform_xml_content(content))
    /\ log' = Append(log, <<"ok", xml_files[idx], xml_files[idx]>>)
    /\ NextFile
    /\ UNCHANGED <<inputDir, outDir0, xml_files>>
    /\ UNCHANGED fnVars

\* lines 122-131: rewrite the text and the name, write the file, report it
WriteOk ==
    /\ pc = "write"
    /\ LET new_content == transform_xml_content(content)
           new_filename == transform_filename(xml_files[idx])
       IN  /\ io' = Append(io, <<"write", new_filename>>)
           /\ outDir' = Put(outDir, new_filename, new_content)
           /\ log' = Append(log, <<"ok", xml_files[idx], new_filename>>)
    /\ NextFile
    /\ UNCHANGED <<inputDir, outDir0, xml_files>>
    /\ UNCHANGED fnVars

\* line 129 raising before the file is opened (write_text's open fails),
\* lines 133-134
WriteFailsOnOpen ==
    /\ pc = "write"
    /\ io' = Append(io, <<"write", transform_filename(xml_files[idx])>>)
    /\ log' = Append(log, <<"failed", xml_files[idx], "open">>)
    /\ NextFile
    /\ UNCHANGED <<inputDir, outDir, outDir0, xml_files>>
    /\ UNCHANGED fnVars

\* line 129 raising after write_text opened the file for writing, which makes
\* or empties it: the file is left with the part of the text that reached it,
\* lines 133-134
WriteFailsPartWay ==
    /\ pc = "write"
    /\ LET new_content == transform_xml_content(content)
           new_filename == transform_filename(xml_files[idx])
       IN  /\ io' = Append(io, <<"write", new_filename>>)
           /\ \E k \in 0..MaxPartial :
                  /\ k < Len(new_content)
                  /\ outDir' = Put(outDir, new_filename, SubSeq(new_content, 1, k))
           /\ log' = Append(log, <<"failed", xml_files[idx], "write">>)
    /\ NextFile
    /\ UNCHANGED <<inputDir, outDir0, xml_files>>
    /\ UNCHANGED fnVars

\* line 136
Finish ==
    /\ pc = "finish"
    /\ log' = Append(log, <<"complete">>)
    /\ pc' = "returned"
    /\ UNCHANGED <<inputDir, outDir, outDir0, xml_files, idx, content, io>>
    /\ UNCHANGED fnVars

Next ==
    \/ Mkdir
    \/ MkdirFails
    \/ Glob
    \/ NoFiles
    \/ Announce
    \/ ReadOk
    \/ ReadFails
    \/ WriteOk
    \/ WriteFailsOnOpen
    \/ WriteFailsPartWay
    \/ Finish

Spec == Init /\ [][Next]_vars

----------------------------------------------------------------------------
(* The pure functions, each applied to arguments drawn from bounded sets.  *)

SeqsUpTo(S, n) == UNION {[1..k -> S] : k \in 0..n}

BatchIdle ==
    /\ pc = "idle"
    /\ inputDir = EmptyDir
    /\ outDir = EmptyDir
    /\ outDir0 = EmptyDir
    /\ xml_files = <<>>
    /\ idx = 0
    /\ content = None
    /\ log = <<>>
    /\ io = <<>>

\* transform_coordinate(v), then transform_coordinate of the result
InitCoord ==
    /\ arg \in -MaxCoord..MaxCoord
    /\ segs = <<>>
    /\ ret1 = None
    /\ ret2 = None
    /\ calls = 0
    /\ BatchIdle

CoordOnce ==
    /\ calls = 0
    /\ ret1' = transform_coordinate(arg)
    /\ calls' = 1
    /\ UNCHANGED <<arg, segs, ret2>>
    /\ UNCHANGED batchVars

CoordTwice ==
    /\ calls = 1
    /\ ret2' = transform_coordinate(ret1)
    /\ calls' = 2
    /\ UNCHANGED <<arg, segs, ret1>>
    /\ UNCHANGED batchVars

NextCoord == CoordOnce \/ CoordTwice

SpecCoord == InitCoord /\ [][NextCoord]_vars

\* transform_filename(name): a name is a run of characters followed by an ending
NameChars == {<<"a">>, <<"-">>, <<"0">>, <<"3">>}

NameEndings ==
    { <<>>, Ext, Ext \o <<"\n">>, Ext \o <<"a">>, Ext \o Ext,
      <<".", "x", "m">>, <<"a", "x", "m", "l">>, <<".", "X", "M", "L">> }

InitName ==
    /\ \E body \in SeqsUpTo(NameChars, MaxNameLen) : \E ending \in NameEndings :
           segs = body \o <<ending>>
    /\ arg = Flatten(segs)
    /\ ret1 = None
    /\ ret2 = None
    /\ calls = 0
    /\ BatchIdle

NameOnce ==
    /\ calls = 0
    /\ ret1' = transform_filename(arg)
    /\ calls' = 1
    /\ UNCHANGED <<arg, segs, ret2>>
    /\ UNCHANGED batchVars

NextName == NameOnce

SpecName == InitName /\ [][NextName]_vars

\* transform_xml_content(c), then transform_xml_content of the result: a text
\* is put together from tags, signs, digits, another character and the example text
ContentPieces ==
    { OpenTag(X_COORD), CloseTag(X_COORD), OpenTag(Y_COORD), CloseTag(Y_COORD),
      <<"-">>, <<"0">>, <<"3">>, <<"z">>, X23 \o Y10 }

InitContent ==
    /\ segs \in SeqsUpTo(ContentPieces, MaxSegs)
    /\ arg = Flatten(segs)
    /\ ret1 = None
    /\ ret2 = None
    /\ calls = 0
    /\ BatchIdle

ContentOnce ==
    /\ calls = 0
    /\ ret1' = transform_xml_content(arg)
    /\ calls' = 1
    /\ UNCHANGED <<arg, segs, ret2>>
    /\ UNCHANGED batchVars

ContentTwice ==
    /\ calls = 1
    /\ ret2' = transform_xml_content(ret1)
    /\ calls' = 2
    /\ UNCHANGED <<arg, segs, ret1>>
    /\ UNCHANGED batchVars

NextContent == ContentOnce \/ ContentTwice

SpecContent == InitContent /\ [][NextContent]_vars

----------------------------------------------------------------------------
(* Claims about transform_coordinate (SpecCoord).                          *)

\* C7 as stated: transform_coordinate(v) is -v + 25, applying it twice gives v
\* back, and 25 is its fixed point.
C7_InvolutionFixedPoint25 ==
    /\ calls >= 1 => ret1 + arg = 25
    /\ calls >= 1 /\ arg = 25 => ret1 = 25
    /\ calls = 2 => ret2 = arg

\* C7 amended: transform_coordinate(v) is -v + 25 and applying it twice gives
\* v back; it maps 25 to 0 and 0 to 25, and no integer is a fixed point.
C7_Involution ==
    /\ calls >= 1 => ret1 + arg = 25
    /\ calls >= 1 /\ arg = 25 => ret1 = 0
    /\ calls >= 1 /\ arg = 0 => ret1 = 25
    /\ calls >= 1 => ret1 # arg
    /\ calls = 2 => ret2 = arg

C7_Witness == calls = 2 /\ arg = 50 /\ ret1 = -25 /\ ret2 = 50

----------------------------------------------------------------------------
(* Claims about transform_filename (SpecName).                             *)

RECURSIVE Pow10(_)
Pow10(k) == IF k = 0 THEN 1 ELSE 10 * Pow10(k - 1)

\* the unsigned decimal magnitude a run of digits denotes
RECURSIVE Magnitude(_)
Magnitude(ds) ==
    IF ds = <<>> THEN 0
    ELSE DigitVal(Head(ds)) * Pow10(Len(ds) - 1) + Magnitude(Tail(ds))

AllDigits(s, a, b) == a <= b /\ \A k \in a..b : IsDigit(s[k])

\* s is a prefix s[1..i-1], '-', the digit run s[i+1..j-1], '-', the digit run
\* s[j+1..Len(s)-4], '.xml'
SuffixSplit(s, i, j) ==
    /\ 1 <= i /\ i < j /\ j <= Len(s) - 5
    /\ s[i] = "-" /\ s[j] = "-"
    /\ AllDigits(s, i + 1, j - 1)
    /\ AllDigits(s, j + 1, Len(s) - 4)
    /\ SubSeq(s, Len(s) - 3, Len(s)) = Ext

EndsWithPattern(s) == \E i, j \in 1..Len(s) : SuffixSplit(s, i, j)

\* v written in a zero-padded field of three characters: three digits for
\* 0 <= v <= 999; a negative v carries its sign inside the field
ZeroPadded3(v) ==
    IF v >= 0
    THEN <<DigitChars[(v \div 100) + 1], DigitChars[((v \div 10) % 10) + 1],
           DigitChars[(v % 10) + 1]>>
    ELSE IF -v < 10 THEN <<"-", "0", DigitChars[-v + 1]>>
    ELSE <<"-">> \o NatStr(-v)

\* C3: a name that ends with '-', digits x, '-', digits y, '.xml' becomes the
\* unchanged prefix, '-', -x + 25 zero-padded to 3, '-', -y + 25 zero-padded
\* to 3, '.xml'.
C3_FilenameFormula ==
    calls = 1 =>
        \A i, j \in 1..Len(arg) :
            SuffixSplit(arg, i, j) =>
                ret1 = SubSeq(arg, 1, i - 1)
                         \o <<"-">> \o ZeroPadded3(25 - Magnitude(SubSeq(arg, i + 1, j - 1)))
                         \o <<"-">> \o ZeroPadded3(25 - Magnitude(SubSeq(arg, j + 1, Len(arg) - 4)))
                         \o Ext

\* a name with a prefix, and y > 25
C3_Witness ==
    /\ calls = 1
    /\ arg = <<"a", "-", "3", "-", "3", "0", ".", "x", "m", "l">>
    /\ ret1 = <<"a", "-", "0", "2", "2", "-", "-", "0", "5", ".", "x", "m", "l">>

FixedWidthSuffix(s) ==
    LET n == Len(s) IN
    /\ n >= 12
    /\ s[n - 11] = "-" /\ AllDigits(s, n - 10, n - 8)
    /\ s[n - 7] = "-" /\ AllDigits(s, n - 6, n - 4)
    /\ SubSeq(s, n - 3, n) = Ext

\* C4: for every name that matches the suffix pattern, the returned name ends
\* with '-', exactly three digits, '-', exactly three digits, '.xml'.
C4_FixedWidth ==
    calls = 1 /\ EndsWithPattern(arg) => FixedWidthSuffix(ret1)

\* C8: a name that does not end with '-', digits, '-', digits, '.xml' is
\* returned unchanged.
C8_IdentityFallback ==
    calls = 1 /\ ~EndsWithPattern(arg) => ret1 = arg

----------------------------------------------------------------------------
(* Claims about transform_xml_content (SpecContent).                       *)

IsDigitPiece(p) == Len(p) = 1 /\ IsDigit(p[1])

RECURSIVE DigitPiecesEnd(_, _)
DigitPiecesEnd(ps, i) ==
    IF i <= Len(ps) /\ IsDigitPiece(ps[i]) THEN DigitPiecesEnd(ps, i + 1) ELSE i

\* the field <TAG>n</TAG> that starts at piece i of ps, as <<n's first piece,
\* the closing tag's piece>>, or None
FieldAt(tag, ps, i) ==
    IF ps[i] # OpenTag(tag) THEN None
    ELSE LET d == IF i + 1 <= Len(ps) /\ ps[i + 1] = <<"-">> THEN i + 2 ELSE i + 1
             e == DigitPiecesEnd(ps, d)
         IN  IF e > d /\ e <= Len(ps) /\ ps[e] = CloseTag(tag) THEN <<d, e>> ELSE None

\* <TAG>, the decimal string of -n + 25, </TAG>
Rewritten(tag, negative, ds) ==
    LET n == IF negative THEN -Magnitude(ds) ELSE Magnitude(ds)
    IN  OpenTag(tag) \o StrOf(25 - n) \o CloseTag(tag)

\* the pieces of a text with every field rewritten and every other piece kept
RECURSIVE ExpectedPieces(_, _)
ExpectedPieces(ps, i) ==
    IF i > Len(ps) THEN <<>>
    ELSE IF ps[i] = X23 \o Y10
         THEN <<OpenTag(X_COORD) \o <<"2">> \o CloseTag(X_COORD)
                  \o OpenTag(Y_COORD) \o <<"1", "5">> \o CloseTag(Y_COORD)>>
                  \o ExpectedPieces(ps, i + 1)
    ELSE IF FieldAt(X_COORD, ps, i) # None
         THEN LET f == FieldAt(X_COORD, ps, i) IN
              <<Rewritten(X_COORD, f[1] = i + 2, Flatten(SubSeq(ps, f[1], f[2] - 1)))>>
                  \o ExpectedPieces(ps, f[2] + 1)
    ELSE IF FieldAt(Y_COORD, ps, i) # None
         THEN LET f == FieldAt(Y_COORD, ps, i) IN
              <<Rewritten(Y_COORD, f[1] = i + 2, Flatten(SubSeq(ps, f[1], f[2] - 1)))>>
                  \o ExpectedPieces(ps, f[2] + 1)
    ELSE <<ps[i]>> \o ExpectedPieces(ps, i + 1)

\* C5: every <X_COORD>n</X_COORD> and <Y_COORD>n</Y_COORD> (n an optional '-'
\* and digits) is replaced by the same tags around the decimal string of
\* -n + 25; every other character stays, in the same order.
C5_ContentRewrite ==
    calls >= 1 => ret1 = Flatten(ExpectedPieces(segs, 1))

\* the example text after a malformed field: <Y_COORD>-</Y_COORD> is kept and
\* <X_COORD>23</X_COORD><Y_COORD>10</Y_COORD> becomes <X_COORD>2</X_COORD><Y_COORD>15</Y_COORD>
C5_Witness ==
    /\ calls >= 1
    /\ segs = <<OpenTag(Y_COORD), <<"-">>, CloseTag(Y_COORD), X23 \o Y10>>
    /\ ret1 = OpenTag(Y_COORD) \o <<"-">> \o CloseTag(Y_COORD)
                \o OpenTag(X_COORD) \o <<"2">> \o CloseTag(X_COORD)
                \o OpenTag(Y_COORD) \o <<"1", "5">> \o CloseTag(Y_COORD)

\* C6 as stated: rewriting twice gives the same string back.
C6_RoundTrip ==
    calls = 2 => ret2 = arg

\* every field of s holds a canonical decimal: no leading zeros, no "-0"
CanonicalFields(s) ==
    \A tag \in {X_COORD, Y_COORD} : \A i \in 1..Len(s) :
        LET m == CoordMatchAt(tag, s, i) IN
        m # None => SubSeq(s, m[1], m[2]) = StrOf(IntOf(SubSeq(s, m[1], m[2])))

\* C6 amended: rewriting twice gives the same string back when every field
\* of the text holds a canonical decimal.
C6_RoundTripCanonical ==
    calls = 2 /\ CanonicalFields(arg) => ret2 = arg

C6_Witness ==
    /\ calls = 2
    /\ segs = <<OpenTag(X_COORD), <<"-">>, <<"3">>, CloseTag(X_COORD)>>
    /\ ret1 = OpenTag(X_COORD) \o <<"2", "8">> \o CloseTag(X_COORD)
    /\ ret2 = arg

----------------------------------------------------------------------------
(* Claims about process_xml_files (Spec).                                  *)

IsReport(e) == e[1] \in {"ok", "failed"}

IsRead(e) == e[1] = "read"

Reports == SelectSeq(log, IsReport)

Successes == {k \in 1..Len(Reports) : Reports[k][1] = "ok"}

PartWayFailures ==
    {k \in 1..Len(Reports) : Reports[k][1] = "failed" /\ Reports[k][3] = "write"}

\* C1: when at least one file is enumerated, whichever files fail, every
\* enumerated file is attempted exactly once, in turn, each with one report,
\* nothing is raised, and the completion report comes last.
C1_EveryFileAttemptedOnce ==
    /\ pc = "raised" => xml_files = <<>> /\ io = <<>> /\ log = <<>>
    /\ pc \in {"read", "write"} => idx \in 1..Len(xml_files)
    /\ pc = "finish" => idx = Len(xml_files) + 1
    /\ pc = "returned" /\ xml_files # <<>> =>
           /\ SelectSeq(io, IsRead) = [k \in 1..Len(xml_files) |-> <<"read", xml_files[k]>>]
           /\ Len(Reports) = Len(xml_files)
           /\ \A k \in 1..Len(xml_files) : Reports[k][2] = xml_files[k]
           /\ Len(log) = Len(xml_files) + 2
           /\ log[1] = <<"found", Len(xml_files)>>
           /\ log[Len(log)] = <<"complete">>

\* the first file fails, the second is still processed, completion is reported
C1_Witness ==
    /\ pc = "returned"
    /\ Len(xml_files) = 2
    /\ Len(log) = 4
    /\ log[2][1] = "failed"
    /\ log[3][1] = "ok"
    /\ log[4] = <<"complete">>

\* C2 as stated: from an empty output directory, the output directory ends up
\* with as many files as there are successes, each success under its
\* transformed name with its own rewritten text.
C2_OneOutputPerSuccess ==
    pc = "returned" /\ outDir0 = EmptyDir =>
        /\ Cardinality(DOMAIN outDir) = Cardinality(Successes)
        /\ \A k \in Successes :
               /\ transform_filename(Reports[k][2]) \in DOMAIN outDir
               /\ outDir[transform_filename(Reports[k][2])]
                      = transform_xml_content(inputDir[Reports[k][2]])

DistinctNewNames ==
    \A a, b \in 1..Len(xml_files) :
        transform_filename(xml_files[a]) = transform_filename(xml_files[b]) => a = b

\* C2 amended: from an empty output directory, the output directory ends up
\* holding exactly the transformed names of the files written successfully or
\* left truncated by a write that failed part-way; when the enumerated files'
\* transformed names are pairwise distinct, there are as many output files as
\* successes and part-way failures together, and each success is under its
\* transformed name with its own rewritten text.
C2_OutputsOfOpenedWrites ==
    pc = "returned" /\ outDir0 = EmptyDir =>
        /\ DOMAIN outDir =
               {transform_filename(Reports[k][2]) : k \in Successes \cup PartWayFailures}
        /\ DistinctNewNames =>
               /\ Cardinality(DOMAIN outDir)
                      = Cardinality(Successes) + Cardinality(PartWayFailures)
               /\ \A k \in Successes :
                      outDir[transform_filename(Reports[k][2])]
                          = transform_xml_content(inputDir[Reports[k][2]])

\* two files with distinct transformed names, both written
C2_Witness ==
    /\ pc = "returned"
    /\ outDir0 = EmptyDir
    /\ DistinctNewNames
    /\ Cardinality(Successes) = 2
    /\ Cardinality(DOMAIN outDir) = 2
    /\ outDir[<<"a", "-", "0", "2", "4", "-", "0", "2", "3">> \o Ext]
           = OpenTag(X_COORD) \o <<"2">> \o CloseTag(X_COORD)
               \o OpenTag(Y_COORD) \o <<"1", "5">> \o CloseTag(Y_COORD)

HasXmlEntry ==
    \E n \in DOMAIN inputDir : Len(n) >= 4 /\ SubSeq(n, Len(n) - 3, Len(n)) = Ext

\* C9: with no *.xml entry in the input directory the run reads nothing,
\* writes nothing, prints the informational message and returns, without
\* raising and without entering the loop.
C9_NoFiles ==
    ~HasXmlEntry =>
        /\ pc \in {"start", "glob", "check", "returned", "raised"}
        /\ pc = "returned" => log = << <<"none_found">> >>
        /\ pc # "returned" => log = <<>>
        /\ xml_files = <<>>
        /\ io = <<>>
        /\ outDir = outDir0
        /\ idx = 0

\* an input directory that holds only an entry that is no .xml file
C9_Witness ==
    /\ pc = "returned"
    /\ DOMAIN inputDir = {FileD}
    /\ log = << <<"none_found">> >>
    /\ io = <<>>

FileReported == Len(Reports') = Len(Reports) + 1

LastReport == Reports'[Len(Reports')]

\* C10 as stated: a file's iteration leaves the output directory either with
\* the file's whole rewritten text under its transformed name (reported as a
\* success) or exactly as it was (reported as a failure).
C10_AtomicIteration ==
    [][FileReported =>
          \/ /\ LastReport[1] = "ok"
             /\ outDir' = Put(outDir, transform_filename(LastReport[2]),
                              transform_xml_content(inputDir[LastReport[2]]))
          \/ /\ LastReport[1] = "failed"
             /\ outDir' = outDir]_vars

IsProperPrefix(p, t) == Len(p) < Len(t) /\ p = SubSeq(t, 1, Len(p))

\* C10 amended: a file's iteration leaves the output directory either with the
\* file's whole rewritten text under its transformed name (a success), or
\* exactly as it was (a failure of the read or of opening the output), or, when
\* the write fails after opening the output, with only a proper prefix of the
\* rewritten text under the transformed name (a failure); a read leaves the
\* output directory alone.
C10_AtomicUnlessWriteFailsPartWay ==
    [][/\ ~FileReported => outDir' = outDir
       /\ FileReported =>
          LET new_name == transform_filename(LastReport[2])
              new_text == transform_xml_content(inputDir[LastReport[2]])
          IN  \/ /\ LastReport[1] = "ok"
                 /\ outDir' = Put(outDir, new_name, new_text)
              \/ /\ LastReport[1] = "failed"
                 /\ LastReport[3] \in {"read", "open"}
                 /\ outDir' = outDir
              \/ /\ LastReport[1] = "failed"
                 /\ LastReport[3] = "write"
                 /\ DOMAIN outDir' = (DOMAIN outDir) \cup {new_name}
                 /\ IsProperPrefix(outDir'[new_name], new_text)
                 /\ \A n \in DOMAIN outDir : n # new_name => outDir'[n] = outDir[n]]_vars

\* a failed read left the output directory as it was, and a write that failed
\* part-way left a truncated file in place of one the directory held
C10_Witness ==
    /\ pc = "returned"
    /\ Len(Reports) = 2
    /\ Reports[1][1] = "failed" /\ Reports[1][3] = "read"
    /\ Reports[2][1] = "failed" /\ Reports[2][3] = "write"
    /\ OldFile \in DOMAIN outDir0
    /\ outDir[OldFile] = <<>>

====
